---- MODULE Spec2Model ----
(***************************************************************************)
(* Collaboration session manager of zen-note-server.                       *)
(*                                                                         *)
(* The model follows services/collaboration.ts (CollaborationManager), the *)
(* control-plane routes of routes/collaboration.ts and the Redis wrapper   *)
(* of utils/redis.ts.  The process is single threaded: every action below  *)
(* is one run-to-completion piece of a handler, from one suspension point  *)
(* (an await on a Redis command) to the next.  The Redis client holds one  *)
(* connection, so a command takes effect in the order it is issued and the *)
(* replies resume their awaiting handlers in that same order: the store    *)
(* changes when a command is issued and `pending' is the FIFO of handlers  *)
(* waiting for a reply.                                                    *)
(*                                                                         *)
(* Time is counted in units of the grace period (30 s).                    *)
(***************************************************************************)
EXTENDS Integers, Sequences, FiniteSets, TLC

\* ---- bounds of the model
NumSockets == 3
NumRelaySockets == 2
NumPids == 3
NumUpdates == 2
MaxClock == 4
MaxInbox == 1

\* ---- configuration (config.collaboration, read from the environment)
\* MAX_PARTICIPANTS_PER_SESSION; the model is configured with 2
MaxParticipants == 2
\* COLLAB_SESSION_TTL, here in units of the grace period
SessionTTL == 2
\* the setTimeout delay of handleDisconnection: one unit of time
GracePeriod == 1

Sockets == 1..NumSockets
\* the sockets of the specifications that exchange messages
RelaySockets == 1..NumRelaySockets
Pids == 1..NumPids
Updates == 1..NumUpdates
\* the session ids uuidv4() can return
SessionIds == {"s1", "s2"}
\* the specifications that follow the life of one session start one session
OneSession == {"s1"}
\* the notes collaboration can be started for
NoteIds == {"n1", "n2"}
OneNote == {"n1"}
NoNote == "-"
\* a session id that is not a version 4 UUID
MalformedIds == {"bad"}
NoSid == "-"
\* a session object is named after the socket whose accept constructed it
NoObj == 0

VARIABLES
    clock,      \* Date.now()
    issued,     \* the session ids uuidv4() has already returned
    metaKey,    \* collab:session:<sid>
    docKey,     \* collab:doc:<sid>
    presKey,    \* collab:presence:<sid>:<pid>
    sessions,   \* CollaborationManager.sessions: sid -> session object
    sess,       \* the session objects (ydoc, connections, participants, lastActivity)
    ws,         \* the server side sockets
    pending,    \* handlers awaiting a Redis reply, in the order of their commands
    timers,     \* the grace timers set by handleDisconnection
    inbox,      \* client -> server messages in flight, per socket
    sent,       \* server -> client messages, per socket, in the order sent
    delivered,  \* how many of sent[w] the client of w has received and applied
    clientDoc,  \* the replica of the client behind each socket
    edited,     \* the updates some client has already produced
    ended,      \* the session ids for which DELETE /api/collab/end answered success
    dropped,    \* the kinds of message the server has handled without applying
                \* an update: what became of them is in MessageKind
    stopped     \* shutdown(): "no", "stopping" while it awaits, "done"

vars == <<clock, issued, metaKey, docKey, presKey, sessions, sess, ws, pending,
          timers, inbox, sent, delivered, clientDoc, edited, ended, dropped,
          stopped>>

storeVars == <<metaKey, docKey, presKey>>
clientVars == <<inbox, sent, delivered, clientDoc, edited>>

\* ---- the Redis keys -------------------------------------------------------
NoMeta == [present |-> FALSE, noteId |-> NoNote, expiresAt |-> 0, exp |-> 0]
\* val is the buffer stored; full is not stored: it records, for the properties,
\* what the replica held when it emitted the update that was stored
NoDoc == [present |-> FALSE, val |-> {}, full |-> {}, exp |-> 0]
NoPres == [present |-> FALSE, exp |-> 0]

\* a key set with EX ttl is served until its time to live has lapsed
Live(k) == k.present /\ clock <= k.exp

\* redisClient.get / getBuffer: the value, or null (the absent record)
RedisGetMeta(sid) ==
    IF sid \in SessionIds /\ Live(metaKey[sid]) THEN metaKey[sid] ELSE NoMeta
RedisGetDoc(sid) == IF Live(docKey[sid]) THEN docKey[sid] ELSE NoDoc
\* redisClient.keys("collab:presence:<sid>:*")
RedisPresenceKeys(sid) == {p \in Pids : Live(presKey[<<sid, p>>])}

\* ---- the session objects --------------------------------------------------
NoSession ==
    [ydoc |-> FALSE, made |-> FALSE, sid |-> NoSid, doc |-> {}, destroyed |-> FALSE,
     persist |-> FALSE, listeners |-> {}, conns |-> {}, parts |-> {},
     lastActivity |-> 0]

\* handled is no field of the socket: it records, for the properties, that
\* handleDisconnection has run for it
NoSocket ==
    [state |-> "none", sid |-> NoSid, pid |-> 0, reason |-> "", handlers |-> FALSE,
     obj |-> NoObj, handled |-> FALSE]

\* a handler suspended on a Redis reply
Cont(k, w, sid, meta, doc, keys, rest, origin) ==
    [k |-> k, w |-> w, sid |-> sid, meta |-> meta, doc |-> doc, keys |-> keys,
     rest |-> rest, origin |-> origin, got |-> FALSE]

Init ==
    /\ clock = 0
    /\ issued = {}
    /\ metaKey = [s \in SessionIds |-> NoMeta]
    /\ docKey = [s \in SessionIds |-> NoDoc]
    /\ presKey = [k \in SessionIds \X Pids |-> NoPres]
    /\ sessions = [s \in SessionIds |-> NoObj]
    /\ sess = [o \in Sockets |-> NoSession]
    /\ ws = [w \in Sockets |-> NoSocket]
    /\ pending = <<>>
    /\ timers = {}
    /\ inbox = [w \in Sockets |-> <<>>]
    /\ sent = [w \in Sockets |-> <<>>]
    /\ delivered = [w \in Sockets |-> 0]
    /\ clientDoc = [w \in Sockets |-> {}]
    /\ edited = {}
    /\ ended = {}
    /\ dropped = {}
    /\ stopped = "no"

\* ---- delivery to the clients -------------------------------------------------
\* Every message the server has sent has reached its client.  What a client
\* receives changes its own replica only, so the order of a delivery and of any
\* other event does not matter: the model delivers a message before the next
\* event is handled.
AllDelivered == \A w \in Sockets : delivered[w] = Len(sent[w])

\* ---- POST /api/collab/start/:noteId ---------------------------------------
\* uuidv4() returns an id never returned before; the metadata, which names the
\* note, is stored with EX sessionTTL and expiresAt = Date.now() + sessionTTL.
\* No key of the store is read.
Start(sid, note) ==
    /\ AllDelivered
    /\ sid \notin issued
    /\ issued' = issued \cup {sid}
    /\ metaKey' = [metaKey EXCEPT ![sid] =
            [present |-> TRUE, noteId |-> note, expiresAt |-> clock + SessionTTL,
             exp |-> clock + SessionTTL]]
    /\ UNCHANGED <<clock, docKey, presKey, sessions, sess, ws, pending, timers,
                   inbox, sent, delivered, clientDoc, edited, ended, dropped, stopped>>

\* ---- sockets --------------------------------------------------------------
\* a close that leaves the socket as it is
WsCloseNothing(wsf, w, reason) == wsf

\* ws.close(code, reason): an open socket starts its closing handshake;
\* closing or closed sockets are left alone
WsClose(wsf, w, reason) ==
    [wsf EXCEPT ![w] = IF @.state = "open"
                       THEN [@ EXCEPT !.state = "closing", !.reason = reason]
                       ELSE @]

\* a send that does not look at the state of the socket
SendMessageAlways(sentf, wsf, w, msg) == [sentf EXCEPT ![w] = Append(@, msg)]

\* sendMessage: only to a socket whose readyState is OPEN
SendMessage(sentf, wsf, w, msg) ==
    IF wsf[w].state = "open" THEN [sentf EXCEPT ![w] = Append(@, msg)] ELSE sentf

\* every session id passes the format test
ValidFormatAlways(sid) == TRUE

\* uuidRegex.test(sessionId): the ids the start route issues pass
ValidFormat(sid) == sid \in SessionIds

\* the websocket route of server.ts with a malformed session id: the socket is
\* closed 'Invalid session ID format' and handleConnection is not called
ConnectInvalid(w, sid) ==
    /\ AllDelivered
    /\ stopped = "no"
    /\ ~ValidFormat(sid)
    /\ ws[w].state = "none"
    /\ \A v \in Sockets : v < w => ws[v].state # "none"
    /\ ws' = WsClose([ws EXCEPT ![w] = [NoSocket EXCEPT !.state = "open",
                                                       !.sid = sid]],
                     w, "Invalid session ID format")
    /\ UNCHANGED <<clock, issued, storeVars, sessions, sess, pending, timers,
                   clientVars, ended, dropped, stopped>>

\* the websocket route of server.ts followed by handleConnection up to its
\* first await: the metadata read is issued.  Sockets and participant ids are
\* names: a new connection takes the next socket, and a participant id not
\* seen before is the next one.
Connect(w, sid, pid) ==
    /\ AllDelivered
    /\ stopped = "no"
    /\ ValidFormat(sid)
    /\ ws[w].state = "none"
    /\ \A v \in Sockets : v < w => ws[v].state # "none"
    /\ \A q \in Pids : q < pid => \E v \in Sockets : ws[v].pid = q
    /\ ws' = [ws EXCEPT ![w] = [NoSocket EXCEPT !.state = "open", !.sid = sid,
                                                !.pid = pid]]
    /\ pending' = Append(pending,
            Cont("acc_meta", w, sid, RedisGetMeta(sid), NoDoc, {}, <<>>, "accept"))
    /\ UNCHANGED <<clock, issued, storeVars, sessions, sess, timers, clientVars,
                   ended, dropped, stopped>>

\* ---- cleanupSession --------------------------------------------------------
\* The part of cleanupSession that runs before its first await: the sockets of
\* the registered session are closed, its ydoc destroyed (which drops the
\* ydoc's listeners), the registry entry deleted and DEL collab:session issued.
CleanupWs(wsf, sid) ==
    IF sessions[sid] = NoObj THEN wsf
    ELSE [w \in Sockets |->
            IF w \in sess[sessions[sid]].conns
            THEN WsClose(wsf, w, "Session ended")[w] ELSE wsf[w]]

CleanupSess(sid) ==
    IF sessions[sid] = NoObj THEN sess
    ELSE [sess EXCEPT ![sessions[sid]] =
            [@ EXCEPT !.destroyed = TRUE, !.persist = FALSE, !.listeners = {}]]

CleanupStart(wsf, sid) ==
    /\ ws' = CleanupWs(wsf, sid)
    /\ sess' = CleanupSess(sid)
    /\ sessions' = [sessions EXCEPT ![sid] = NoObj]
    /\ metaKey' = [metaKey EXCEPT ![sid] = NoMeta]

\* cleanupSession has returned to its caller: the sweep goes on with the next
\* session of its list, the other callers are done
CleanupReturn(c) ==
    IF c.rest = <<>>
    THEN /\ pending' = Tail(pending)
         /\ UNCHANGED <<ws, sess, sessions, metaKey>>
    ELSE /\ CleanupStart(ws, Head(c.rest))
         /\ pending' = Append(Tail(pending),
                Cont("cl_meta", 0, Head(c.rest), NoMeta, NoDoc, {}, Tail(c.rest),
                     c.origin))

\* reply of DEL collab:session: DEL collab:doc is issued
CleanupDelDoc ==
    /\ AllDelivered
    /\ pending # <<>>
    /\ Head(pending).k = "cl_meta"
    /\ docKey' = [docKey EXCEPT ![Head(pending).sid] = NoDoc]
    /\ pending' = Append(Tail(pending), [Head(pending) EXCEPT !.k = "cl_doc"])
    /\ UNCHANGED <<clock, issued, metaKey, presKey, sessions, sess, ws, timers,
                   clientVars, ended, dropped, stopped>>

\* reply of DEL collab:doc: KEYS collab:presence:<sid>:* is issued
CleanupKeys ==
    /\ AllDelivered
    /\ pending # <<>>
    /\ Head(pending).k = "cl_doc"
    /\ pending' = Append(Tail(pending),
            [Head(pending) EXCEPT !.k = "cl_keys",
                                  !.keys = RedisPresenceKeys(Head(pending).sid)])
    /\ UNCHANGED <<clock, issued, storeVars, sessions, sess, ws, timers, clientVars,
                   ended, dropped, stopped>>

\* reply of KEYS with at least one key: DEL of those keys is issued
CleanupDelPresence ==
    /\ AllDelivered
    /\ pending # <<>>
    /\ Head(pending).k = "cl_keys"
    /\ Head(pending).keys # {}
    /\ presKey' = [k \in SessionIds \X Pids |->
            IF k[1] = Head(pending).sid /\ k[2] \in Head(pending).keys
            THEN NoPres ELSE presKey[k]]
    /\ pending' = Append(Tail(pending), [Head(pending) EXCEPT !.k = "cl_del"])
    /\ UNCHANGED <<clock, issued, metaKey, docKey, sessions, sess, ws, timers,
                   clientVars, ended, dropped, stopped>>

\* cleanupSession returns: after KEYS found nothing, or after the last DEL
CleanupDone ==
    /\ AllDelivered
    /\ pending # <<>>
    /\ \/ Head(pending).k = "cl_keys" /\ Head(pending).keys = {}
       \/ Head(pending).k = "cl_del"
    /\ CleanupReturn(Head(pending))
    /\ stopped' = IF Head(pending).origin = "shutdown" /\ Head(pending).rest = <<>>
                  THEN "done" ELSE stopped
    /\ UNCHANGED <<clock, issued, docKey, presKey, timers, clientVars, ended, dropped>>

\* ---- handleConnection ------------------------------------------------------
\* the expiry test left out
ExpiredNever(meta) == FALSE

\* Date.now() > metadata.expiresAt
Expired(meta) == clock > meta.expiresAt

\* an initial state that carries nothing
EncodeNothing(sessf, o) == {}

\* Y.encodeStateAsUpdate(ydoc): everything the replica holds
EncodeStateAsUpdate(sessf, o) == sessf[o].doc

\* a session that always has room
HasRoomAlways(o, sessf) == TRUE

\* the session has room for one more participant (the test of line 62, made
\* after the awaits of the accept): the accept goes on to the attach
HasRoom(o, sessf) == Cardinality(sessf[o].parts) < MaxParticipants

\* lines 61-103 of handleConnection, on session object o: the participant
\* limit, the attach, setupYjsSync, the close/error handlers and the presence
\* write (SET ... EX sessionTTL, issued before the function suspends again)
AttachWith(w, o, sessf, stored) ==
    IF ~HasRoom(o, sessf)
    THEN /\ ws' = WsClose(ws, w, "Session full")
         /\ sess' = sessf
         /\ UNCHANGED <<sent, presKey>>
    ELSE /\ sess' = [sessf EXCEPT ![o] =
                [@ EXCEPT !.conns = @ \cup {w},
                          !.parts = @ \cup {ws[w].pid},
                          !.lastActivity = clock,
                          !.listeners = @ \cup {w}]]
         /\ sent' = SendMessage(sent, ws, w,
                [type |-> "sync-step-1", update |-> EncodeStateAsUpdate(sessf, o)])
         /\ ws' = [ws EXCEPT ![w] = [@ EXCEPT !.handlers = TRUE, !.obj = o]]
         /\ presKey' = IF stored
                        THEN [presKey EXCEPT ![<<ws[w].sid, ws[w].pid>>] =
                                [present |-> TRUE, exp |-> clock + SessionTTL]]
                        ELSE presKey

Attach(w, o, sessf) == AttachWith(w, o, sessf, TRUE)

\* reply of the metadata read: no such key
AcceptNotFound ==
    /\ AllDelivered
    /\ pending # <<>>
    /\ Head(pending).k = "acc_meta"
    /\ ~Head(pending).meta.present
    /\ ws' = WsClose(ws, Head(pending).w, "Session not found or expired")
    /\ pending' = Tail(pending)
    /\ UNCHANGED <<clock, issued, storeVars, sessions, sess, timers, clientVars,
                   ended, dropped, stopped>>

\* reply of the metadata read: Date.now() > metadata.expiresAt
AcceptExpired ==
    /\ AllDelivered
    /\ pending # <<>>
    /\ Head(pending).k = "acc_meta"
    /\ Head(pending).meta.present
    /\ Expired(Head(pending).meta)
    /\ CleanupStart(WsClose(ws, Head(pending).w, "Session expired"),
                    Head(pending).sid)
    /\ pending' = Append(Tail(pending),
            Cont("cl_meta", Head(pending).w, Head(pending).sid, NoMeta, NoDoc, {},
                 <<>>, "expired"))
    /\ UNCHANGED <<clock, issued, docKey, presKey, timers, clientVars, ended, dropped, stopped>>

\* reply of the metadata read, no session registered: createSession up to its
\* await (new Y.Doc(), then the snapshot read is issued)
AcceptCreate ==
    /\ AllDelivered
    /\ pending # <<>>
    /\ Head(pending).k = "acc_meta"
    /\ Head(pending).meta.present
    /\ ~Expired(Head(pending).meta)
    /\ sessions[Head(pending).sid] = NoObj
    /\ sess' = [sess EXCEPT ![Head(pending).w] =
            [NoSession EXCEPT !.ydoc = TRUE, !.sid = Head(pending).sid]]
    /\ pending' = Append(Tail(pending),
            [Head(pending) EXCEPT !.k = "acc_doc",
                                  !.doc = RedisGetDoc(Head(pending).sid)])
    /\ UNCHANGED <<clock, issued, storeVars, sessions, ws, timers, clientVars,
                   ended, dropped, stopped>>

\* reply of the metadata read, a session is registered: it is used
AcceptReuse ==
    /\ AllDelivered
    /\ pending # <<>>
    /\ Head(pending).k = "acc_meta"
    /\ Head(pending).meta.present
    /\ ~Expired(Head(pending).meta)
    /\ sessions[Head(pending).sid] # NoObj
    /\ Attach(Head(pending).w, sessions[Head(pending).sid], sess)
    /\ pending' = Tail(pending)
    /\ UNCHANGED <<clock, issued, metaKey, docKey, sessions, timers, inbox,
                   delivered, clientDoc, edited, ended, dropped, stopped>>

\* the session createSession builds once the snapshot read has answered
NewSession(c) ==
    [NoSession EXCEPT !.ydoc = TRUE, !.made = TRUE, !.sid = c.sid,
                      !.doc = IF c.doc.present THEN c.doc.val ELSE {},
                      !.persist = TRUE, !.lastActivity = clock]

\* the registry after createSession: this.sessions.set(sessionId, session)
Register(sid, o) == [sessions EXCEPT ![sid] = o]

\* reply of the snapshot read: the rest of createSession, then the attach
AcceptCreated ==
    /\ AllDelivered
    /\ pending # <<>>
    /\ Head(pending).k = "acc_doc"
    /\ sessions' = Register(Head(pending).sid, Head(pending).w)
    /\ Attach(Head(pending).w, Head(pending).w,
              [sess EXCEPT ![Head(pending).w] = NewSession(Head(pending))])
    /\ pending' = Tail(pending)
    /\ UNCHANGED <<clock, issued, metaKey, docKey, timers, inbox, delivered,
                   clientDoc, edited, ended, dropped, stopped>>

\* ---- store failures during an accept ---------------------------------------
\* the metadata read is rejected: the catch of handleConnection closes the
\* socket 'Internal server error'
AcceptMetaFailed ==
    /\ AllDelivered
    /\ pending # <<>>
    /\ Head(pending).k = "acc_meta"
    /\ ws' = WsClose(ws, Head(pending).w, "Internal server error")
    /\ pending' = Tail(pending)
    /\ UNCHANGED <<clock, issued, storeVars, sessions, sess, timers, clientVars,
                   ended, dropped, stopped>>

\* the snapshot read is rejected: createSession throws before it registers
\* anything, and the catch of handleConnection closes the socket
AcceptDocFailed ==
    /\ AllDelivered
    /\ pending # <<>>
    /\ Head(pending).k = "acc_doc"
    /\ ws' = WsClose(ws, Head(pending).w, "Internal server error")
    /\ pending' = Tail(pending)
    /\ UNCHANGED <<clock, issued, storeVars, sessions, sess, timers, clientVars,
                   ended, dropped, stopped>>

\* AcceptReuse when the presence write is rejected: updateParticipantPresence
\* catches the error and logs it; the key is not stored
AcceptReusePresenceFailed ==
    /\ AllDelivered
    /\ pending # <<>>
    /\ Head(pending).k = "acc_meta"
    /\ Head(pending).meta.present
    /\ ~Expired(Head(pending).meta)
    /\ sessions[Head(pending).sid] # NoObj
    /\ HasRoom(sessions[Head(pending).sid], sess)
    /\ AttachWith(Head(pending).w, sessions[Head(pending).sid], sess, FALSE)
    /\ pending' = Tail(pending)
    /\ UNCHANGED <<clock, issued, metaKey, docKey, sessions, timers, inbox,
                   delivered, clientDoc, edited, ended, dropped, stopped>>

\* AcceptCreated when the presence write is rejected
AcceptCreatedPresenceFailed ==
    /\ AllDelivered
    /\ pending # <<>>
    /\ Head(pending).k = "acc_doc"
    /\ sessions' = Register(Head(pending).sid, Head(pending).w)
    /\ AttachWith(Head(pending).w, Head(pending).w,
                  [sess EXCEPT ![Head(pending).w] = NewSession(Head(pending))],
                  FALSE)
    /\ pending' = Tail(pending)
    /\ UNCHANGED <<clock, issued, metaKey, docKey, timers, inbox, delivered,
                   clientDoc, edited, ended, dropped, stopped>>

\* ---- handleDisconnection ---------------------------------------------------
\* The socket and the participant id are removed from the session the registry
\* holds now, DEL collab:presence is issued, and a grace timer that captures
\* that session object is set when no connection is left.
HandleDisconnection(w) ==
    IF sessions[ws[w].sid] = NoObj
    THEN UNCHANGED <<sess, presKey, timers>>
    ELSE /\ sess' = [sess EXCEPT ![sessions[ws[w].sid]] =
                [@ EXCEPT !.conns = @ \ {w}, !.parts = @ \ {ws[w].pid}]]
         /\ presKey' = [presKey EXCEPT ![<<ws[w].sid, ws[w].pid>>] = NoPres]
         /\ timers' = IF sess[sessions[ws[w].sid]].conns \ {w} = {}
                      THEN timers \cup {[obj |-> sessions[ws[w].sid],
                                         sid |-> ws[w].sid,
                                         due |-> clock + GracePeriod]}
                      ELSE timers

\* The socket is closed (by the peer, or the closing handshake the server began
\* has ended): 'close' is emitted, and handled when handleConnection has
\* registered its handler by then.  Messages not yet read are lost.
SocketClosed(w) ==
    /\ AllDelivered
    /\ ws[w].state \in {"open", "closing", "errored"}
    /\ ws' = [ws EXCEPT ![w].state = "closed"]
    /\ inbox' = [inbox EXCEPT ![w] = <<>>]
    /\ IF ws[w].handlers
       THEN HandleDisconnection(w)
       ELSE UNCHANGED <<sess, presKey, timers>>
    /\ UNCHANGED <<clock, issued, metaKey, docKey, sessions, pending, sent,
                   delivered, clientDoc, edited, ended, dropped, stopped>>

\* The socket fails: it leaves the open state and 'error' is emitted, handled
\* like 'close' when handleConnection has registered its handlers by then.
\* The 'close' of the socket follows as an event of its own (SocketClosed).
SocketError(w) ==
    /\ AllDelivered
    /\ ws[w].state \in {"open", "closing"}
    /\ ws' = [ws EXCEPT ![w].state = "errored", ![w].handled = ws[w].handlers]
    /\ IF ws[w].handlers
       THEN HandleDisconnection(w)
       ELSE UNCHANGED <<sess, presKey, timers>>
    /\ UNCHANGED <<clock, issued, metaKey, docKey, sessions, pending, inbox, sent,
                   delivered, clientDoc, edited, ended, dropped, stopped>>

\* the grace timer fires and its session object still has no connection:
\* cleanupSession(sessionId)
GraceTeardown(t) ==
    /\ AllDelivered
    /\ t \in timers
    /\ clock >= t.due
    /\ sess[t.obj].conns = {}
    /\ timers' = timers \ {t}
    /\ CleanupStart(ws, t.sid)
    /\ pending' = Append(pending,
            Cont("cl_meta", 0, t.sid, NoMeta, NoDoc, {}, <<>>, "grace"))
    /\ UNCHANGED <<clock, issued, docKey, presKey, clientVars, ended, dropped, stopped>>

\* the grace timer fires and its session object has a connection: nothing
GraceSkip(t) ==
    /\ AllDelivered
    /\ t \in timers
    /\ clock >= t.due
    /\ sess[t.obj].conns # {}
    /\ timers' = timers \ {t}
    /\ UNCHANGED <<clock, issued, storeVars, sessions, sess, ws, pending,
                   clientVars, ended, dropped, stopped>>

\* ---- performPeriodicCleanup ------------------------------------------------
Inactive(sid) ==
    /\ sessions[sid] # NoObj
    /\ clock - sess[sessions[sid]].lastActivity > SessionTTL

\* the sequences that list every element of S once
RECURSIVE Orders(_)
Orders(S) ==
    IF S = {} THEN {<<>>}
    ELSE UNION {{<<x>> \o r : r \in Orders(S \ {x})} : x \in S}

\* the interval fires: the inactive sessions are collected and cleanupSession
\* is awaited for each in turn
Sweep ==
    /\ AllDelivered
    /\ stopped = "no"
    /\ \E sid \in SessionIds : Inactive(sid)
    /\ \A i \in 1..Len(pending) : pending[i].origin # "sweep"
    /\ \E list \in Orders({sid \in SessionIds : Inactive(sid)}) :
          /\ CleanupStart(ws, Head(list))
          /\ pending' = Append(pending,
                Cont("cl_meta", 0, Head(list), NoMeta, NoDoc, {}, Tail(list),
                     "sweep"))
    /\ UNCHANGED <<clock, issued, docKey, presKey, timers, clientVars, ended, dropped, stopped>>

\* ---- shutdown ---------------------------------------------------------------
\* The onClose hook of server.ts, which runs when the server has stopped
\* listening: shutdown() clears the cleanup interval, lists the registered
\* sessions and awaits cleanupSession for each in turn.
Shutdown ==
    /\ AllDelivered
    /\ stopped = "no"
    /\ \E list \in Orders({sid \in SessionIds : sessions[sid] # NoObj}) :
          IF list = <<>>
          THEN /\ stopped' = "done"
               /\ UNCHANGED <<ws, sess, sessions, metaKey, pending>>
          ELSE /\ stopped' = "stopping"
               /\ CleanupStart(ws, Head(list))
               /\ pending' = Append(pending,
                      Cont("cl_meta", 0, Head(list), NoMeta, NoDoc, {}, Tail(list),
                           "shutdown"))
    /\ UNCHANGED <<clock, issued, docKey, presKey, timers, clientVars, ended, dropped>>

\* ---- DELETE /api/collab/end/:sessionId -------------------------------------
\* the request arrives: the metadata read is issued
EndRequest(sid) ==
    /\ AllDelivered
    /\ sid \in issued
    /\ \A i \in 1..Len(pending) : pending[i].origin = "end" => pending[i].sid # sid
    /\ pending' = Append(pending,
            Cont("end_get", 0, sid, RedisGetMeta(sid), NoDoc, {}, <<>>, "end"))
    /\ UNCHANGED <<clock, issued, storeVars, sessions, sess, ws, timers, clientVars,
                   ended, dropped, stopped>>

\* no metadata: 404
EndNotFound ==
    /\ AllDelivered
    /\ pending # <<>>
    /\ Head(pending).k = "end_get"
    /\ ~Head(pending).meta.present
    /\ pending' = Tail(pending)
    /\ UNCHANGED <<clock, issued, storeVars, sessions, sess, ws, timers, clientVars,
                   ended, dropped, stopped>>

\* metadata found: DEL collab:session is issued
EndDelMeta ==
    /\ AllDelivered
    /\ pending # <<>>
    /\ Head(pending).k = "end_get"
    /\ Head(pending).meta.present
    /\ metaKey' = [metaKey EXCEPT ![Head(pending).sid] = NoMeta]
    /\ pending' = Append(Tail(pending), [Head(pending) EXCEPT !.k = "end_meta"])
    /\ UNCHANGED <<clock, issued, docKey, presKey, sessions, sess, ws, timers,
                   clientVars, ended, dropped, stopped>>

\* DEL collab:doc is issued
EndDelDoc ==
    /\ AllDelivered
    /\ pending # <<>>
    /\ Head(pending).k = "end_meta"
    /\ docKey' = [docKey EXCEPT ![Head(pending).sid] = NoDoc]
    /\ pending' = Append(Tail(pending), [Head(pending) EXCEPT !.k = "end_doc"])
    /\ UNCHANGED <<clock, issued, metaKey, presKey, sessions, sess, ws, timers,
                   clientVars, ended, dropped, stopped>>

\* KEYS collab:presence:<sid>:* is issued
EndKeys ==
    /\ AllDelivered
    /\ pending # <<>>
    /\ Head(pending).k = "end_doc"
    /\ pending' = Append(Tail(pending),
            [Head(pending) EXCEPT !.k = "end_keys",
                                  !.keys = RedisPresenceKeys(Head(pending).sid)])
    /\ UNCHANGED <<clock, issued, storeVars, sessions, sess, ws, timers, clientVars,
                   ended, dropped, stopped>>

\* DEL of the presence keys found is issued
EndDelPresence ==
    /\ AllDelivered
    /\ pending # <<>>
    /\ Head(pending).k = "end_keys"
    /\ Head(pending).keys # {}
    /\ presKey' = [k \in SessionIds \X Pids |->
            IF k[1] = Head(pending).sid /\ k[2] \in Head(pending).keys
            THEN NoPres ELSE presKey[k]]
    /\ pending' = Append(Tail(pending), [Head(pending) EXCEPT !.k = "end_del"])
    /\ UNCHANGED <<clock, issued, metaKey, docKey, sessions, sess, ws, timers,
                   clientVars, ended, dropped, stopped>>

\* the route answers {success: true}
EndSuccess ==
    /\ AllDelivered
    /\ pending # <<>>
    /\ \/ Head(pending).k = "end_keys" /\ Head(pending).keys = {}
       \/ Head(pending).k = "end_del"
    /\ ended' = ended \cup {Head(pending).sid}
    /\ pending' = Tail(pending)
    /\ UNCHANGED <<clock, issued, storeVars, sessions, sess, ws, timers, clientVars,
                   dropped, stopped>>

\* no join or status request is being served
RouteIdle == \A i \in 1..Len(pending) : pending[i].origin \notin {"join", "status"}

\* ---- POST /api/collab/join/:sessionId ---------------------------------------
\* the request arrives: the metadata read is issued
JoinRequest(sid) ==
    /\ AllDelivered
    /\ sid \in issued
    /\ RouteIdle
    /\ pending' = Append(pending,
            Cont("join_get", 0, sid, RedisGetMeta(sid), NoDoc, {}, <<>>, "join"))
    /\ UNCHANGED <<clock, issued, storeVars, sessions, sess, ws, timers, clientVars,
                   ended, dropped, stopped>>

\* no metadata: 404 'Session not found or expired'
JoinNotFound ==
    /\ AllDelivered
    /\ pending # <<>>
    /\ Head(pending).k = "join_get"
    /\ ~Head(pending).meta.present
    /\ pending' = Tail(pending)
    /\ UNCHANGED <<clock, issued, storeVars, sessions, sess, ws, timers, clientVars,
                   ended, dropped, stopped>>

\* Date.now() > session.expiresAt: 410 'Session expired'
JoinExpired ==
    /\ AllDelivered
    /\ pending # <<>>
    /\ Head(pending).k = "join_get"
    /\ Head(pending).meta.present
    /\ Expired(Head(pending).meta)
    /\ pending' = Tail(pending)
    /\ UNCHANGED <<clock, issued, storeVars, sessions, sess, ws, timers, clientVars,
                   ended, dropped, stopped>>

\* a join that writes the metadata again, with a new expiresAt
JoinOkExtends ==
    /\ AllDelivered
    /\ pending # <<>>
    /\ Head(pending).k = "join_get"
    /\ Head(pending).meta.present
    /\ ~Expired(Head(pending).meta)
    /\ metaKey' = [metaKey EXCEPT ![Head(pending).sid] =
            [@ EXCEPT !.expiresAt = clock + SessionTTL,
                      !.exp = clock + SessionTTL]]
    /\ pending' = Tail(pending)
    /\ UNCHANGED <<clock, issued, docKey, presKey, sessions, sess, ws, timers,
                   clientVars, ended, dropped, stopped>>

\* the route answers the websocket url and expiresAt
JoinOk ==
    /\ AllDelivered
    /\ pending # <<>>
    /\ Head(pending).k = "join_get"
    /\ Head(pending).meta.present
    /\ ~Expired(Head(pending).meta)
    /\ pending' = Tail(pending)
    /\ UNCHANGED <<clock, issued, storeVars, sessions, sess, ws, timers, clientVars,
                   ended, dropped, stopped>>

\* ---- GET /api/collab/status/:sessionId -------------------------------------
\* the request arrives: the metadata read is issued
StatusRequest(sid) ==
    /\ AllDelivered
    /\ sid \in issued
    /\ RouteIdle
    /\ pending' = Append(pending,
            Cont("st_get", 0, sid, RedisGetMeta(sid), NoDoc, {}, <<>>, "status"))
    /\ UNCHANGED <<clock, issued, storeVars, sessions, sess, ws, timers, clientVars,
                   ended, dropped, stopped>>

\* no metadata: 404 'Session not found'
StatusNotFound ==
    /\ AllDelivered
    /\ pending # <<>>
    /\ Head(pending).k = "st_get"
    /\ ~Head(pending).meta.present
    /\ pending' = Tail(pending)
    /\ UNCHANGED <<clock, issued, storeVars, sessions, sess, ws, timers, clientVars,
                   ended, dropped, stopped>>

\* metadata found: KEYS collab:presence:<sid>:* is issued
StatusKeys ==
    /\ AllDelivered
    /\ pending # <<>>
    /\ Head(pending).k = "st_get"
    /\ Head(pending).meta.present
    /\ \E order \in Orders(RedisPresenceKeys(Head(pending).sid)) :
          pending' = Append(Tail(pending),
                [Head(pending) EXCEPT !.k = "st_keys", !.rest = order])
    /\ UNCHANGED <<clock, issued, storeVars, sessions, sess, ws, timers, clientVars,
                   ended, dropped, stopped>>

\* the loop over the presence keys: the value read last is pushed when it was
\* found, and GET of the next key is issued
StatusPresence ==
    /\ AllDelivered
    /\ pending # <<>>
    /\ Head(pending).k \in {"st_keys", "st_pres"}
    /\ Head(pending).rest # <<>>
    /\ LET c == Head(pending)
           p == Head(c.rest)
       IN pending' = Append(Tail(pending),
                [c EXCEPT !.k = "st_pres",
                          !.keys = IF c.k = "st_pres" /\ c.got
                                   THEN @ \cup {c.w} ELSE @,
                          !.w = p,
                          !.got = Live(presKey[<<c.sid, p>>]),
                          !.rest = Tail(@)])
    /\ UNCHANGED <<clock, issued, storeVars, sessions, sess, ws, timers, clientVars,
                   ended, dropped, stopped>>

\* the participants the status route has collected when it answers
StatusParticipants(c) ==
    IF c.k = "st_pres" /\ c.got THEN c.keys \cup {c.w} ELSE c.keys

\* the route answers participantCount, expiresAt and isExpired
StatusOk ==
    /\ AllDelivered
    /\ pending # <<>>
    /\ Head(pending).k \in {"st_keys", "st_pres"}
    /\ Head(pending).rest = <<>>
    /\ pending' = Tail(pending)
    /\ UNCHANGED <<clock, issued, storeVars, sessions, sess, ws, timers, clientVars,
                   ended, dropped, stopped>>

\* ---- time ------------------------------------------------------------------
\* Redis drops a key whose time to live has lapsed
Expire(k, none, now) == IF k.present /\ now > k.exp THEN none ELSE k

\* time passes; a timer that is due fires before time moves on
Tick ==
    /\ AllDelivered
    /\ clock < MaxClock
    /\ \A t \in timers : t.due > clock
    /\ clock' = clock + 1
    /\ metaKey' = [s \in SessionIds |-> Expire(metaKey[s], NoMeta, clock + 1)]
    /\ docKey' = [s \in SessionIds |-> Expire(docKey[s], NoDoc, clock + 1)]
    /\ presKey' = [k \in SessionIds \X Pids |-> Expire(presKey[k], NoPres, clock + 1)]
    /\ UNCHANGED <<issued, sessions, sess, ws, pending, timers, clientVars, ended,
                   dropped, stopped>>

\* ---- the clients -----------------------------------------------------------
SyncTypes == {"sync-step-1", "sync-step-2", "sync-update"}

\* the bytes of an update that Y.applyUpdate cannot decode: it throws and the
\* replica is left as it was
BadUpdate == {0}

\* what a client can send besides an edit: an awareness message, a message of
\* a type the server does not know, data that is not JSON, and a sync-update
\* whose update cannot be decoded.  u names the payload.
OtherKinds == {"awareness", "unknown", "garbage", "bad-update"}

OtherMessage(kind, u) ==
    IF kind = "bad-update" THEN [type |-> "sync-update", update |-> BadUpdate]
    ELSE IF kind = "garbage" THEN [type |-> "garbage", update |-> {}]
    ELSE [type |-> kind, update |-> {u}]

\* the client of an attached socket sends a message that is not an edit
ClientSend(w, u, kind) ==
    /\ AllDelivered
    /\ ws[w].state \in {"open", "closing"}
    /\ ws[w].handlers
    /\ u \notin edited
    /\ Len(inbox[w]) < MaxInbox
    /\ edited' = edited \cup {u}
    /\ inbox' = [inbox EXCEPT ![w] = Append(@, OtherMessage(kind, u))]
    /\ UNCHANGED <<clock, issued, storeVars, sessions, sess, ws, pending, timers,
                   sent, delivered, clientDoc, ended, dropped, stopped>>

\* the client of an attached socket sends again an update its replica holds
ClientResend(w, u, type) ==
    /\ AllDelivered
    /\ ws[w].state \in {"open", "closing"}
    /\ ws[w].handlers
    /\ u \in clientDoc[w]
    /\ Len(inbox[w]) < MaxInbox
    /\ inbox' = [inbox EXCEPT ![w] = Append(@, [type |-> type, update |-> {u}])]
    /\ UNCHANGED <<clock, issued, storeVars, sessions, sess, ws, pending, timers,
                   sent, delivered, clientDoc, edited, ended, dropped, stopped>>

\* the client of an attached socket makes an edit of its own and sends it
ClientEdit(w, u, type) ==
    /\ AllDelivered
    /\ ws[w].state \in {"open", "closing"}
    /\ ws[w].handlers
    /\ u \notin edited
    /\ Len(inbox[w]) < MaxInbox
    /\ edited' = edited \cup {u}
    /\ clientDoc' = [clientDoc EXCEPT ![w] = @ \cup {u}]
    /\ inbox' = [inbox EXCEPT ![w] = Append(@, [type |-> type, update |-> {u}])]
    /\ UNCHANGED <<clock, issued, storeVars, sessions, sess, ws, pending, timers,
                   sent, delivered, ended, dropped, stopped>>

\* the client receives the next message the server sent it and applies it
ClientReceive(w) ==
    /\ delivered[w] < Len(sent[w])
    /\ delivered' = [delivered EXCEPT ![w] = @ + 1]
    /\ clientDoc' = [clientDoc EXCEPT ![w] =
            IF sent[w][delivered[w] + 1].type \in SyncTypes
            THEN @ \cup sent[w][delivered[w] + 1].update ELSE @]
    /\ UNCHANGED <<clock, issued, storeVars, sessions, sess, ws, pending, timers,
                   inbox, sent, edited, ended, dropped, stopped>>

\* ---- the relay -------------------------------------------------------------
\* an update event that carries the whole update, known or not
DeltaWhole(o, update) == update

\* Y.applyUpdate(ydoc, update): what the update adds to the document; the
\* ydoc emits 'update' with it when it is not empty
Delta(o, update) == update \ sess[o].doc

\* the listeners setupYjsSync put on ydoc o that send to connection c: each
\* listener skips the socket it was registered for
Senders(o, c) == {l \in sess[o].listeners : l # c}

\* listeners that send to the open sockets of every session
RecipientsAnySession(o) == {c \in Sockets : ws[c].handlers /\ ws[c].state = "open"}

\* the sockets the 'update' listeners of ydoc o send to: the open connections
\* of the session the registry holds for the ydoc's session id
Recipients(o) ==
    IF sessions[sess[o].sid] = NoObj THEN {}
    ELSE {c \in sess[sessions[sess[o].sid]].conns : ws[c].state = "open"}

RECURSIVE Copies(_, _)
Copies(n, msg) == IF n = 0 THEN <<>> ELSE <<msg>> \o Copies(n - 1, msg)

\* the 'update' listeners of setupYjsSync, one per socket ever attached to o
Broadcast(o, delta) ==
    [c \in Sockets |->
        IF c \in Recipients(o)
        THEN sent[c] \o Copies(Cardinality(Senders(o, c)),
                               [type |-> "sync-update", update |-> delta])
        ELSE sent[c]]

\* the 'update' listener of createSession: SET collab:doc with the update,
\* EX sessionTTL
Persist(o, delta) ==
    IF sess[o].persist
    THEN [docKey EXCEPT ![sess[o].sid] =
            [present |-> TRUE, val |-> delta, full |-> sess[o].doc \cup delta,
             exp |-> clock + SessionTTL]]
    ELSE docKey

\* an update is applied whether or not it can be decoded
AppliesUndecoded(m) == m.type \in SyncTypes

\* the message handler reaches Y.applyUpdate with an update it can decode
Applies(m) == m.type \in SyncTypes /\ m.update # BadUpdate

\* every message that applies no update is forwarded
IsAwarenessOrOther(m) == TRUE

\* case "awareness" of handleYjsMessage
IsAwareness(m) == m.type = "awareness"

\* the awareness case of handleYjsMessage: the message goes to the open
\* connections, other than w, of the session the registry holds
Forward(w, m) ==
    [c \in Sockets |->
        IF /\ sessions[ws[w].sid] # NoObj
           /\ c \in sess[sessions[ws[w].sid]].conns
           /\ c # w
           /\ ws[c].state = "open"
        THEN Append(sent[c], m) ELSE sent[c]]

\* what becomes of a message that applies no update: JSON.parse or
\* Y.applyUpdate throws and the catch logs it, the update was known already,
\* it is forwarded as awareness, or its type is unknown and a warning logged
MessageKind(o, m) ==
    IF m.type = "garbage" THEN "garbage"
    ELSE IF m.type = "awareness" THEN "awareness"
    ELSE IF m.type \notin SyncTypes THEN "unknown"
    ELSE IF m.update = BadUpdate THEN "bad-update"
    ELSE "known-update"

\* a message of an attached socket is handled: handleYjsMessage on the ydoc
\* the socket was attached to
ServerReceive(w) ==
    /\ AllDelivered
    /\ ws[w].handlers
    /\ ws[w].state \in {"open", "closing"}
    /\ inbox[w] # <<>>
    /\ inbox' = [inbox EXCEPT ![w] = Tail(@)]
    /\ LET o == ws[w].obj
           m == Head(inbox[w])
           delta == Delta(o, m.update)
       IN IF Applies(m) /\ delta # {}
          THEN /\ sess' = [sess EXCEPT ![o].doc = @ \cup m.update]
               /\ docKey' = Persist(o, delta)
               /\ sent' = Broadcast(o, delta)
               /\ UNCHANGED dropped
          ELSE /\ sent' = IF IsAwareness(m) THEN Forward(w, m) ELSE sent
               /\ dropped' = dropped \cup {MessageKind(o, m)}
               /\ UNCHANGED <<sess, docKey>>
    /\ UNCHANGED <<clock, issued, metaKey, presKey, sessions, ws, pending, timers,
                   delivered, clientDoc, edited, ended, stopped>>

\* ---- the system ------------------------------------------------------------
\* sessions are started, sockets are accepted and closed, timers and the sweep
\* run, time passes
Lifecycle(S) ==
    \/ \E sid \in OneSession, note \in OneNote : Start(sid, note)
    \/ \E w \in S, sid \in OneSession, pid \in Pids : Connect(w, sid, pid)
    \/ AcceptNotFound
    \/ AcceptExpired
    \/ AcceptCreate
    \/ AcceptReuse
    \/ AcceptCreated
    \/ \E w \in S : SocketClosed(w)
    \/ \E t \in timers : GraceTeardown(t)
    \/ \E t \in timers : GraceSkip(t)
    \/ CleanupDelDoc
    \/ CleanupKeys
    \/ CleanupDelPresence
    \/ CleanupDone
    \/ Sweep
    \/ Tick
    \/ \E w \in S : ClientReceive(w)

\* the clients edit and the server handles their messages
Relay(S) ==
    \/ \E w \in S, u \in Updates, type \in SyncTypes : ClientEdit(w, u, type)
    \/ \E w \in S : ServerReceive(w)

\* the session is ended through the control plane
End ==
    \/ \E sid \in OneSession : EndRequest(sid)
    \/ EndNotFound
    \/ EndDelMeta
    \/ EndDelDoc
    \/ EndKeys
    \/ EndDelPresence
    \/ EndSuccess

\* The session lifecycle, with every socket of the model.
Next == Lifecycle(Sockets)

Spec == Init /\ [][Next]_vars

\* The lifecycle together with the relay of document updates.
NextRelay == Lifecycle(RelaySockets) \/ Relay(RelaySockets)

SpecRelay == Init /\ [][NextRelay]_vars

\* a participant asks to join through the control plane
Join ==
    \/ \E sid \in OneSession : JoinRequest(sid)
    \/ JoinNotFound
    \/ JoinExpired
    \/ JoinOk

\* the status of a session is asked through the control plane
Status ==
    \/ \E sid \in OneSession : StatusRequest(sid)
    \/ StatusNotFound
    \/ StatusKeys
    \/ StatusPresence
    \/ StatusOk

\* Sessions that are ended through the control plane while sockets relay,
\* within one unit of time.
NextEnd ==
    \/ \E sid \in OneSession, note \in OneNote : Start(sid, note)
    \/ \E w \in RelaySockets, sid \in OneSession, pid \in Pids : Connect(w, sid, pid)
    \/ AcceptNotFound
    \/ AcceptCreate
    \/ AcceptReuse
    \/ AcceptCreated
    \/ \E w \in RelaySockets : SocketClosed(w)
    \/ \E w \in RelaySockets : ClientReceive(w)
    \/ Relay(RelaySockets)
    \/ End

SpecEnd == Init /\ [][NextEnd]_vars

\* Sessions that outlive their metadata: the lifecycle and the join route.
NextRoutes == Lifecycle(RelaySockets) \/ Join

SpecRoutes == Init /\ [][NextRoutes]_vars

\* a store operation of an accept is rejected
Faults ==
    \/ AcceptMetaFailed
    \/ AcceptDocFailed
    \/ AcceptReusePresenceFailed
    \/ AcceptCreatedPresenceFailed

\* Accepts that go wrong: malformed session ids and store failures.
NextFaults ==
    \/ Lifecycle(RelaySockets)
    \/ \E w \in RelaySockets, sid \in OneSession \cup MalformedIds, pid \in Pids :
          Connect(w, sid, pid)
    \/ \E w \in RelaySockets, sid \in OneSession \cup MalformedIds :
          ConnectInvalid(w, sid)
    \/ Faults

SpecFaults == Init /\ [][NextFaults]_vars

\* Every kind of message, on sessions that do not outlive one unit of time.
NextMessages ==
    \/ \E sid \in OneSession, note \in OneNote : Start(sid, note)
    \/ \E w \in RelaySockets, sid \in OneSession, pid \in Pids : Connect(w, sid, pid)
    \/ AcceptNotFound
    \/ AcceptCreate
    \/ AcceptReuse
    \/ AcceptCreated
    \/ \E w \in RelaySockets : SocketClosed(w)
    \/ \E w \in RelaySockets : ClientReceive(w)
    \/ Relay(RelaySockets)
    \/ \E w \in RelaySockets, u \in Updates, kind \in OtherKinds : ClientSend(w, u, kind)
    \/ \E w \in RelaySockets, u \in Updates, type \in SyncTypes :
          ClientResend(w, u, type)

SpecMessages == Init /\ [][NextMessages]_vars

\* What happens to the metadata of a session with one socket: its accept, its
\* messages, its disconnect, the timers, the sweep, join and status.
NextMeta ==
    \/ \E sid \in OneSession, note \in OneNote : Start(sid, note)
    \/ \E sid \in OneSession, pid \in Pids : Connect(1, sid, pid)
    \/ AcceptNotFound
    \/ AcceptExpired
    \/ AcceptCreate
    \/ AcceptCreated
    \/ SocketClosed(1)
    \/ \E t \in timers : GraceTeardown(t)
    \/ CleanupDelDoc
    \/ CleanupKeys
    \/ CleanupDone
    \/ Sweep
    \/ Tick
    \/ ClientReceive(1)
    \/ Relay({1})
    \/ Join
    \/ Status

SpecMeta == Init /\ [][NextMeta]_vars

\* Collaboration is started for the notes, more than once: the sessions are
\* joined by sockets, ended through the control plane, and run out.
NextNotes ==
    \/ \E sid \in SessionIds, note \in NoteIds : Start(sid, note)
    \/ \E w \in RelaySockets, sid \in SessionIds, pid \in Pids : Connect(w, sid, pid)
    \/ AcceptNotFound
    \/ AcceptExpired
    \/ AcceptCreate
    \/ AcceptReuse
    \/ AcceptCreated
    \/ \E w \in RelaySockets : SocketClosed(w)
    \/ \E t \in timers : GraceTeardown(t)
    \/ \E t \in timers : GraceSkip(t)
    \/ CleanupDelDoc
    \/ CleanupKeys
    \/ CleanupDelPresence
    \/ CleanupDone
    \/ Sweep
    \/ Tick
    \/ \E w \in RelaySockets : ClientReceive(w)

SpecNotes == Init /\ [][NextNotes]_vars

\* Three sockets that come and go on one session and relay its updates,
\* within one unit of time.
NextFanout ==
    \/ \E sid \in OneSession, note \in OneNote : Start(sid, note)
    \/ \E w \in Sockets, sid \in OneSession, pid \in Pids : Connect(w, sid, pid)
    \/ AcceptNotFound
    \/ AcceptCreate
    \/ AcceptReuse
    \/ AcceptCreated
    \/ \E w \in Sockets : SocketClosed(w)
    \/ \E w \in Sockets : ClientReceive(w)
    \/ Relay(Sockets)

SpecFanout == Init /\ [][NextFanout]_vars

\* The lifecycle under the scheduling of the event loop: time passes, a timer
\* that is due fires, the cleanup interval fires, and the store answers every
\* command.  Clients start sessions, connect and leave as they please.
NextLive == Lifecycle(RelaySockets)

Scheduling ==
    /\ WF_vars(Tick)
    /\ WF_vars(Sweep)
    /\ WF_vars(\E t \in timers : GraceTeardown(t))
    /\ WF_vars(\E t \in timers : GraceSkip(t))
    /\ WF_vars(AcceptNotFound)
    /\ WF_vars(AcceptExpired)
    /\ WF_vars(AcceptCreate)
    /\ WF_vars(AcceptReuse)
    /\ WF_vars(AcceptCreated)
    /\ WF_vars(CleanupDelDoc)
    /\ WF_vars(CleanupKeys)
    /\ WF_vars(CleanupDelPresence)
    /\ WF_vars(CleanupDone)
    /\ WF_vars(\E w \in RelaySockets : ClientReceive(w))

SpecLive == Init /\ [][NextLive]_vars /\ Scheduling

\* Two sessions side by side, each with a socket of its own (socket 1 on the
\* first, socket 2 on the second): each is started, joined, edited, left,
\* torn down by its grace timer and swept.
NextIsolation ==
    \/ \E sid \in SessionIds, note \in OneNote : Start(sid, note)
    \/ \E pid \in Pids : Connect(1, "s1", pid)
    \/ \E pid \in Pids : Connect(2, "s2", pid)
    \/ AcceptNotFound
    \/ AcceptExpired
    \/ AcceptCreate
    \/ AcceptCreated
    \/ \E w \in RelaySockets : SocketClosed(w)
    \/ \E t \in timers : GraceTeardown(t)
    \/ CleanupDelDoc
    \/ CleanupKeys
    \/ CleanupDone
    \/ Sweep
    \/ Tick
    \/ \E w \in RelaySockets : ClientReceive(w)
    \/ \E w \in RelaySockets, u \in Updates : ClientEdit(w, u, "sync-update")
    \/ \E w \in RelaySockets : ServerReceive(w)

SpecIsolation == Init /\ [][NextIsolation]_vars

\* Sockets that fail: 'error' and then 'close' are handled for one socket,
\* while other sockets attach and leave, within one unit of time.
NextError ==
    \/ \E sid \in OneSession, note \in OneNote : Start(sid, note)
    \/ \E w \in Sockets, sid \in OneSession, pid \in Pids : Connect(w, sid, pid)
    \/ AcceptNotFound
    \/ AcceptCreate
    \/ AcceptReuse
    \/ AcceptCreated
    \/ \E w \in Sockets : SocketError(w)
    \/ \E w \in Sockets : SocketClosed(w)
    \/ \E w \in Sockets : ClientReceive(w)

SpecError == Init /\ [][NextError]_vars

\* The lifecycle of a server that is shut down at some point.
NextShutdown == Lifecycle(RelaySockets) \/ Shutdown

SpecShutdown == Init /\ [][NextShutdown]_vars

\* ---- what the properties speak of ------------------------------------------
\* socket w has been attached by handleConnection and is open
Attached(w) ==
    /\ ws[w].handlers
    /\ ws[w].state = "open"
    /\ w \in sess[ws[w].obj].conns

\* the open sockets among the connections of the session registered for sid
OpenConnections(sid) ==
    IF sessions[sid] = NoObj THEN {}
    ELSE {w \in sess[sessions[sid]].conns : ws[w].state = "open"}

\* the replicas constructed for sid and not destroyed
LiveReplicas(sid) ==
    {o \in Sockets : sess[o].ydoc /\ ~sess[o].destroyed /\ sess[o].sid = sid}

\* no message is in flight in either direction
NoMessageInFlight == AllDelivered /\ \A w \in Sockets : inbox[w] = <<>>

\* the durable keys of sid are absent
MetaAbsent(sid) == ~Live(metaKey[sid])
DocAbsent(sid) == ~Live(docKey[sid])
DurableAbsent(sid) ==
    MetaAbsent(sid) /\ DocAbsent(sid) /\ RedisPresenceKeys(sid) = {}

\* GET /api/collab/status: participantCount is the number of presence keys
\* found that still hold a value
StatusParticipantCount(sid) == Cardinality(RedisPresenceKeys(sid))

\* ---- C1 --------------------------------------------------------------------
\* C1: the number of sockets concurrently attached to a session never exceeds
\* maxParticipants.
C1_AttachedWithinCap ==
    \A sid \in SessionIds : Cardinality(OpenConnections(sid)) <= MaxParticipants

\* ---- C2 --------------------------------------------------------------------
\* C2: accepts that race on the first access of a session id construct one
\* replica and one SessionState, and all of them attach to that SessionState.
C2_CreateOnce ==
    /\ \A sid \in SessionIds : Cardinality(LiveReplicas(sid)) <= 1
    /\ \A w \in Sockets : Attached(w) => sessions[ws[w].sid] = ws[w].obj

\* ---- C3 --------------------------------------------------------------------
\* C3: when a sync message of an attached socket changes the replica, a
\* sync-update with that update is sent to every other open socket of the
\* session and nothing is sent back to the socket it came from.
C3_RelayToOthersOnly ==
    [][\A w \in Sockets :
          (/\ ServerReceive(w)
           /\ Head(inbox[w]).type \in SyncTypes
           /\ Delta(ws[w].obj, Head(inbox[w]).update) # {})
          => /\ sent'[w] = sent[w]
             /\ \A c \in sess[ws[w].obj].conns \ {w} :
                   ws[c].state = "open"
                   => /\ Len(sent'[c]) > Len(sent[c])
                      /\ sent'[c][Len(sent'[c])] =
                            [type |-> "sync-update",
                             update |-> Delta(ws[w].obj, Head(inbox[w]).update)]
      ]_vars

\* ---- C4 --------------------------------------------------------------------
\* C4: with no message in flight, the replicas of two participants attached
\* to the same session and the server replica hold the same updates.
C4_Converges ==
    \A a, b \in Sockets :
        (/\ a # b
         /\ Attached(a) /\ Attached(b)
         /\ ws[a].sid = ws[b].sid
         /\ NoMessageInFlight)
        => /\ clientDoc[a] = clientDoc[b]
           /\ clientDoc[a] = sess[ws[a].obj].doc
           /\ clientDoc[b] = sess[ws[b].obj].doc

\* ---- C5 --------------------------------------------------------------------
\* a step of the cleanupSession a grace timer started
GraceCleanupStep ==
    \/ \E t \in timers : GraceTeardown(t)
    \/ /\ pending # <<>>
       /\ Head(pending).origin = "grace"
       /\ CleanupDelDoc \/ CleanupKeys \/ CleanupDelPresence \/ CleanupDone

\* C5: the teardown a grace timer starts leaves the metadata key and the
\* snapshot key of the session as they are.
C5_GraceKeepsDurable ==
    [][GraceCleanupStep => metaKey' = metaKey /\ docKey' = docKey]_vars

\* ---- C6 --------------------------------------------------------------------
\* the session of timer t is registered, has no connection and waits for t
Draining(t) == sessions[t.sid] = t.obj /\ sess[t.obj].conns = {}

\* C6: a socket attached while the session waits for its grace timer joins
\* that same SessionState, whose replica is not replaced nor changed, and a
\* grace timer does not tear a session down while a socket is attached to it.
C6_ReattachReuses ==
    [][/\ \A t \in timers : \A w \in Sockets :
            (/\ Draining(t)
             /\ ws[w].sid = t.sid
             /\ ~ws[w].handlers /\ ws'[w].handlers)
            => /\ ws'[w].obj = t.obj
               /\ sessions'[t.sid] = t.obj
               /\ sess'[t.obj].doc = sess[t.obj].doc
               /\ LiveReplicas(t.sid)' = LiveReplicas(t.sid)
       /\ \A t \in timers :
            GraceTeardown(t) => ~\E w \in Sockets : Attached(w) /\ ws[w].sid = t.sid
      ]_vars

\* ---- C7 --------------------------------------------------------------------
\* C7: a SessionState constructed from the snapshot holds what the replica
\* that stored the snapshot held after that update.
C7_RehydrateRoundTrip ==
    [][(/\ AcceptCreated
        /\ Head(pending).doc.present)
       => \A w \in Sockets :
            Head(pending).w = w => sess'[w].doc = Head(pending).doc.full
      ]_vars

\* ---- C8 --------------------------------------------------------------------
\* C8: when the cleanup a sweep started for a session returns, the session has
\* no registry entry and no metadata, snapshot or presence key.
C8_SweepEvictsFully ==
    [][\A sid \in SessionIds :
          (/\ pending # <<>>
           /\ Head(pending).origin = "sweep"
           /\ Head(pending).sid = sid
           /\ CleanupDone)
          => (sessions[sid] = NoObj /\ DurableAbsent(sid))'
      ]_vars

\* ---- C9 --------------------------------------------------------------------
\* the participant ids of the sockets attached to sid
AttachedParticipants(sid) ==
    {ws[w].pid : w \in {v \in Sockets : Attached(v) /\ ws[v].sid = sid}}

\* no socket is in its closing handshake and no store reply is awaited
Settled == pending = <<>> /\ \A w \in Sockets : ws[w].state # "closing"

\* C9: once the store operations have completed, the presence keys of a
\* session are those of the participants attached, and status counts them.
C9_PresenceIsAttached ==
    \A sid \in SessionIds :
        (Settled /\ ~MetaAbsent(sid))
        => /\ RedisPresenceKeys(sid) = AttachedParticipants(sid)
           /\ StatusParticipantCount(sid) = Cardinality(AttachedParticipants(sid))

\* ---- C10 -------------------------------------------------------------------
\* C10: once end has succeeded for a session, its metadata, snapshot and
\* presence keys are absent, and stay absent.
C10_EndedStaysDeleted ==
    \A sid \in SessionIds : sid \in ended => DurableAbsent(sid)

\* ---- C11 -------------------------------------------------------------------
\* the reply of a metadata read the join route or an accept awaits is handled
MetaReplyHandled ==
    \/ JoinNotFound \/ JoinExpired \/ JoinOk
    \/ AcceptNotFound \/ AcceptExpired \/ AcceptCreate \/ AcceptReuse

\* the session continuation c asks for is past its lifetime: its metadata is
\* gone from the store, or expiresAt has lapsed
PastTTL(c) == ~c.meta.present \/ clock > c.meta.expiresAt

\* no replica is constructed and socket w is attached to nothing
NothingCreated(w) ==
    /\ \A o \in Sockets : sess'[o].ydoc => sess[o].ydoc
    /\ sessions' = sessions \/ \A sid \in SessionIds : sessions'[sid] \in {sessions[sid], NoObj}
    /\ w \in Sockets => /\ ~ws'[w].handlers
                         /\ \A o \in Sockets : w \notin sess'[o].conns

\* C11 as stated: past the lifetime of the session, join answers not found
\* and an accept is closed 'Session not found or expired'; no SessionState is
\* created.
C11_NotFoundAfterTTL ==
    [][(MetaReplyHandled /\ PastTTL(Head(pending)))
       => /\ JoinNotFound \/ AcceptNotFound
          /\ \A w \in Sockets : Head(pending).w = w => NothingCreated(w)
      ]_vars

\* C11: past the lifetime of the session, join answers not found or expired,
\* an accept is closed 'Session not found or expired' or 'Session expired', and
\* no replica is constructed nor the socket attached.
C11_RefusedAfterTTL ==
    [][(MetaReplyHandled /\ PastTTL(Head(pending)))
       => /\ JoinNotFound \/ JoinExpired \/ AcceptNotFound \/ AcceptExpired
          /\ \A w \in Sockets :
                Head(pending).w = w
                => /\ NothingCreated(w)
                   /\ ws[w].state = "open"
                       => /\ ws'[w].state = "closing"
                          /\ ws'[w].reason \in {"Session not found or expired",
                                                "Session expired"}
      ]_vars

\* an accept or a join of a session that was started is about to be answered
\* past the session's lifetime
C11_Witness ==
    /\ pending # <<>>
    /\ Head(pending).k \in {"join_get", "acc_meta"}
    /\ Head(pending).sid \in issued
    /\ clock > SessionTTL
    /\ PastTTL(Head(pending))

\* ---- C12 -------------------------------------------------------------------
\* C12: an accept that finds no metadata closes its socket 'Session not found
\* or expired' and changes nothing else: no session object, no registry
\* entry, no other socket, no key of the store.
C12_NotFoundOnlyCloses ==
    [][\A w \in Sockets :
          (AcceptNotFound /\ Head(pending).w = w)
          => /\ ws[w].state = "open"
                => /\ ws'[w].state = "closing"
                   /\ ws'[w].reason = "Session not found or expired"
             /\ ~ws'[w].handlers
             /\ \A v \in Sockets \ {w} : ws'[v] = ws[v]
             /\ UNCHANGED <<sess, sessions, storeVars, timers>>
      ]_vars

\* an accept has been closed for want of metadata
C12_Witness ==
    \E w \in Sockets :
        /\ ws[w].state = "closing"
        /\ ws[w].reason = "Session not found or expired"

\* ---- C13 -------------------------------------------------------------------
\* the session objects of sid that createSession completed and cleanupSession
\* has not destroyed
LiveSessions(sid) ==
    {o \in Sockets : sess[o].made /\ ~sess[o].destroyed /\ sess[o].sid = sid}

\* a step of the cleanupSession an expired accept started
ExpiredCleanupStep ==
    /\ pending # <<>>
    /\ Head(pending).origin = "expired"
    /\ CleanupDelDoc \/ CleanupKeys \/ CleanupDelPresence \/ CleanupDone

C14_MalformedRejectedFirst ==
    [][\A w \in Sockets : \A sid \in MalformedIds :
          (ws[w].state = "none" /\ ws'[w].state # "none" /\ ws'[w].sid = sid)
          => /\ ws'[w].state = "closing"
             /\ ws'[w].reason = "Invalid session ID format"
             /\ ws'[w].reason # "Session not found or expired"
             /\ ~ws'[w].handlers
             /\ UNCHANGED <<pending, sess, sessions, storeVars, timers>>
      ]_vars

\* a connection with a malformed session id has been refused
C14_Witness ==
    \E w \in Sockets : ws[w].sid \in MalformedIds /\ ws[w].state = "closing"

\* ---- C15 -------------------------------------------------------------------
\* socket w is a connection of some session object
Member(w) == \E o \in Sockets : w \in sess[o].conns

Malformed(w) ==
    \/ Head(inbox[w]).type = "garbage"
    \/ Head(inbox[w]).type \in SyncTypes /\ Head(inbox[w]).update = BadUpdate

\* C16: a message that fails to parse or whose update fails to apply is
\* dropped alone: the sockets, the session objects with their connections,
\* participants and replicas, the registry and the store stay as they are and
\* nothing is sent, so that the socket goes on as if it had not sent it.
C16_MalformedDroppedAlone ==
    [][\A w \in Sockets :
          (ServerReceive(w) /\ Malformed(w))
          => UNCHANGED <<ws, sess, sessions, storeVars, sent, pending, timers>>
      ]_vars

\* both kinds of malformed message have been dropped and their socket is
\* still attached
C16_Witness ==
    /\ {"garbage", "bad-update"} \subseteq dropped
    /\ \E w \in Sockets : Attached(w)
    /\ \A w \in Sockets : ws[w].state \in {"none", "open"}

C18_UnknownIgnored ==
    [][\A w \in Sockets :
          (/\ ServerReceive(w)
           /\ Head(inbox[w]).type \notin SyncTypes \cup {"awareness", "garbage"})
          => UNCHANGED <<ws, sess, sessions, storeVars, sent, pending, timers>>
      ]_vars

\* a message of an unknown type has been handled, and two sockets are attached
C18_Witness ==
    /\ "unknown" \in dropped
    /\ \A w \in RelaySockets : Attached(w)

\* ---- C19 -------------------------------------------------------------------
\* C19: an update the replica already holds leaves the replica as it is, the
\* snapshot is not written and nothing is broadcast.
C19_KnownUpdateNoOp ==
    [][\A w \in Sockets :
          (/\ ServerReceive(w)
           /\ Applies(Head(inbox[w]))
           /\ Head(inbox[w]).update \subseteq sess[ws[w].obj].doc)
          => UNCHANGED <<sess, docKey, sent>>
      ]_vars

\* an update has been sent again to a replica that held it; two sockets are
\* attached and a snapshot is stored
C19_Witness ==
    /\ "known-update" \in dropped
    /\ \A w \in RelaySockets : Attached(w)
    /\ \E sid \in SessionIds : ~DocAbsent(sid)

\* ---- C20 -------------------------------------------------------------------
\* C20: the metadata of a session is written when the session is started and
\* never again: a key that is stored is left as it is or removed, and a key
\* appears only for a session id that is issued at that step.
C20_MetadataWrittenOnce ==
    [][\A sid \in SessionIds :
          /\ metaKey[sid].present
             => metaKey'[sid] = metaKey[sid] \/ ~metaKey'[sid].present
          /\ (~metaKey[sid].present /\ metaKey'[sid].present)
             => sid \notin issued /\ sid \in issued'
      ]_vars

\* the metadata is still stored after an accept, a message and a disconnect
\* of the session, while a join or a status request is served
C20_Witness ==
    \E sid \in SessionIds :
        /\ Live(metaKey[sid])
        /\ ws[1].state = "closed" /\ ws[1].handlers /\ ws[1].sid = sid
        /\ sess[1].doc # {}
        /\ pending # <<>>
        /\ Head(pending).origin \in {"join", "status"}
        /\ Head(pending).meta.present

\* ---- C21 -------------------------------------------------------------------
\* the sessions of a note whose metadata the store still serves
SessionsOfNote(note) ==
    {sid \in SessionIds : Live(metaKey[sid]) /\ metaKey[sid].noteId = note}

\* C21: at most one live collaboration session exists per note: starting
\* collaboration for a note that has an unexpired session does not create a
\* second session for that note.
C21_OneSessionPerNote ==
    \A note \in NoteIds : Cardinality(SessionsOfNote(note)) <= 1

\* ---- C22 -------------------------------------------------------------------
\* C22: in every reachable state every session object holds at most
\* maxParticipants participants, however the accepts for the session are
\* interleaved at their store reads.
C22_ParticipantsWithinCap ==
    \A o \in Sockets : Cardinality(sess[o].parts) <= MaxParticipants

\* a session is full and an accept that found it full has refused its socket
C22_Witness ==
    \E o \in Sockets, w \in Sockets :
        /\ Cardinality(sess[o].parts) = MaxParticipants
        /\ ws[w].reason = "Session full"
        /\ ws[w].sid = sess[o].sid

\* ---- C23 -------------------------------------------------------------------
\* the session objects whose connections hold socket w
Holders(w) == {o \in Sockets : w \in sess[o].conns}

\* C23: every socket that has been attached and is still open is in the
\* connections of exactly one session object, and that object is the one the
\* registry holds for the socket's session id.
C23_AttachedToRegistered ==
    \A w \in Sockets :
        (ws[w].handlers /\ ws[w].state = "open")
        => /\ Holders(w) = {ws[w].obj}
           /\ sessions[ws[w].sid] = ws[w].obj

\* ---- C24 -------------------------------------------------------------------
\* the participant ids of the connections of session object o
ConnectionPids(sessf, o) == {ws[v].pid : v \in sessf[o].conns}

\* C24: each attached connection has its own participant entry: a session
\* object has as many participant entries as connections, and a disconnect
\* leaves the entries of the connections that stay.
C24_OwnParticipantEntry ==
    [][/\ \A o \in Sockets :
            Cardinality(sess'[o].parts) = Cardinality(sess'[o].conns)
       /\ \A w \in Sockets :
            (SocketClosed(w) /\ ws[w].handlers)
            => \A o \in Sockets : ConnectionPids(sess', o) \subseteq sess'[o].parts
      ]_vars

\* ---- C25 -------------------------------------------------------------------
\* the grace timer t fires
GraceFires(t) == GraceTeardown(t) \/ GraceSkip(t)

\* C25: a grace timer that fires while the session registered under its
\* session id has an open connection tears nothing down: no socket is closed,
\* no replica destroyed, the registry and the durable keys are kept.
C25_GraceSparesAttached ==
    [][\A t \in timers :
            (GraceFires(t) /\ OpenConnections(t.sid) # {})
            => UNCHANGED <<ws, sess, sessions, storeVars>>
      ]_vars

\* ---- C26 -------------------------------------------------------------------
\* when the grace period that the most recent emptying of session object o
\* started is over: every emptying sets a timer, due one grace period later
GraceOver(o) == {u.due : u \in {v \in timers : v.obj = o}}

\* C26: a grace timer tears its session down only when the session has been
\* without connections for the whole grace period since its most recent
\* disconnect: a timer of an earlier emptying does not tear it down sooner.
C26_GraceFromLastDisconnect ==
    [][\A t \in timers :
            GraceTeardown(t) => \A due \in GraceOver(t.obj) : clock >= due
      ]_vars

\* ---- C27 -------------------------------------------------------------------
\* The session registered for sid attached a socket, or its replica applied a
\* client's update, within the last sessionTTL.  The listener of createSession
\* stores each update with EX sessionTTL, so the snapshot key is served for
\* exactly sessionTTL after the last update the replica applied.
RecentlyActive(sid) ==
    /\ sessions[sid] # NoObj
    /\ \/ clock - sess[sessions[sid]].lastActivity <= SessionTTL
       \/ sess[sessions[sid]].persist /\ Live(docKey[sid])

\* a step of the sweep that evicts the session registered for sid
SweepEvicts(sid) ==
    /\ sessions[sid] # NoObj
    /\ sessions'[sid] = NoObj
    /\ \/ Sweep
       \/ /\ pending # <<>>
          /\ Head(pending).origin = "sweep"
          /\ CleanupDone

\* C27: the sweep evicts only idle sessions: a session that handled an attach
\* or a client message within the last sessionTTL is not evicted, and its
\* sockets, replica, registry entry and durable keys are left as they are.
C27_SweepEvictsIdleOnly ==
    [][\A sid \in SessionIds : SweepEvicts(sid) => ~RecentlyActive(sid)]_vars

\* ---- C28 -------------------------------------------------------------------
\* a message is sent to socket c in this step
SentTo(c) == Len(sent'[c]) > Len(sent[c])

\* socket w's message makes the replica of its session emit an update
Emits(w) ==
    /\ ServerReceive(w)
    /\ Applies(Head(inbox[w]))
    /\ Delta(ws[w].obj, Head(inbox[w]).update) # {}

\* C28: no message, initial state, sync-update or awareness, is sent to a
\* socket that is not open; the sockets that are not open are skipped, and the
\* open sockets of the session are sent the message all the same.
C28_OnlyOpenSocketsSent ==
    [][/\ \A c \in Sockets : SentTo(c) => ws[c].state = "open"
       /\ \A w \in Sockets :
            /\ Emits(w)
               => \A c \in Recipients(ws[w].obj) :
                      Senders(ws[w].obj, c) # {} => SentTo(c)
            /\ (ServerReceive(w) /\ IsAwareness(Head(inbox[w])))
               => \A c \in OpenConnections(ws[w].sid) : c # w => SentTo(c)
      ]_vars

\* a socket that was closed before it was attached has been sent nothing, and
\* an open socket of the same session has been sent an update
C28_Witness ==
    \E c \in Sockets, d \in Sockets :
        /\ ws[d].handlers
        /\ ws[d].state = "closed"
        /\ c \in OpenConnections(ws[d].sid)
        /\ d \in sess[sessions[ws[d].sid]].conns
        /\ sent[d] = <<>>
        /\ \E i \in 1..Len(sent[c]) : sent[c][i].type = "sync-update"

\* ---- C29 -------------------------------------------------------------------
\* handleConnection attaches socket w in this step
Attaches(w) == ~ws[w].handlers /\ ws'[w].handlers

\* C29: nothing is sent to a socket before it is attached; the attach sends
\* it the whole state of the replica it is attached to, as its first message;
\* and once the newcomer has applied that message its replica holds every
\* update the session replica had applied.
C29_InitialStateFirst ==
    [][\A w \in Sockets :
        /\ ~ws'[w].handlers => sent'[w] = <<>>
        /\ (Attaches(w) /\ ws[w].state = "open")
           => sent'[w] = <<[type |-> "sync-step-1",
                            update |-> sess'[ws'[w].obj].doc]>>
        /\ (ClientReceive(w) /\ delivered[w] = 0)
           => sess[ws[w].obj].doc \subseteq clientDoc'[w]
      ]_vars

\* a newcomer has received an initial state that held an update
C29_Witness ==
    \E w \in Sockets :
        /\ ws[w].handlers
        /\ delivered[w] >= 1
        /\ sent[w][1].type = "sync-step-1"
        /\ sent[w][1].update # {}
        /\ sent[w][1].update \subseteq clientDoc[w]

\* ---- C30 -------------------------------------------------------------------
\* C30: an update that changes the session replica is sent exactly once, as
\* one sync-update, to each open socket of the session other than the one it
\* came from, whatever sockets are attached and whatever sockets attached and
\* detached before.
C30_OneCopyPerRecipient ==
    [][\A w \in Sockets :
            Emits(w)
            => \A c \in OpenConnections(ws[w].sid) \ {w} :
                    sent'[c] = Append(sent[c],
                        [type |-> "sync-update",
                         update |-> Delta(ws[w].obj, Head(inbox[w]).update)])
      ]_vars

\* ---- C31 -------------------------------------------------------------------
\* the participants of the session registered for sid whose socket has not
\* closed
PresentParticipants(sid) ==
    IF sessions[sid] = NoObj THEN {}
    ELSE {ws[v].pid : v \in {c \in sess[sessions[sid]].conns : ws[c].state # "closed"}}

\* the accept of socket w is refused in this step because the session is full
RefusedFull(w) == ws[w].reason # "Session full" /\ ws'[w].reason = "Session full"

\* C31: a socket that closed while its accept was suspended on a store read
\* keeps no place in the session: its participant entry does not count
\* against the cap, so an accept is refused 'Session full' only when
\* maxParticipants participants whose sockets have not closed are present.
C31_ClosedKeepsNoPlace ==
    [][\A w \in Sockets :
            RefusedFull(w)
            => Cardinality(PresentParticipants(ws[w].sid)) >= MaxParticipants
      ]_vars

\* ---- C32 -------------------------------------------------------------------
\* C32: once the end route has answered success for a session, the session
\* in memory relays no more: its sockets are closed and no update of theirs
\* is applied to the replica, persisted or broadcast.
C32_EndedStopsRelay ==
    [][/\ \A sid \in SessionIds :
            (EndSuccess /\ Head(pending).sid = sid) => OpenConnections(sid)' = {}
       /\ \A w \in Sockets :
            (ServerReceive(w) /\ ws[w].sid \in ended)
            => UNCHANGED <<sess, docKey, sent>>
      ]_vars

\* ---- C33 -------------------------------------------------------------------
\* the times of a last attach from which sessionTTL lapses within the model
SweepableTimes == 0..(MaxClock - SessionTTL - 1)

\* C33: every session object is destroyed in the end: when nothing attaches
\* to it any more, the grace timer or the sweep removes and destroys it,
\* whether or not its connections ever became empty.
C33_EventuallyDestroyed ==
    \A o \in Sockets : \A last \in SweepableTimes :
        (sess[o].made /\ ~sess[o].destroyed /\ sess[o].lastActivity = last)
        ~> (sess[o].destroyed \/ sess[o].lastActivity # last)

\* ---- C34 -------------------------------------------------------------------
\* everything that belongs to session sid: its registry entry, its session
\* objects, its durable keys, its sockets and what has been sent to them
SessionView(sid) ==
    <<sessions[sid],
      [o \in Sockets |-> IF sess[o].sid = sid THEN sess[o] ELSE NoSession],
      metaKey[sid], docKey[sid], [p \in Pids |-> presKey[<<sid, p>>]],
      [w \in Sockets |-> IF ws[w].sid = sid THEN <<ws[w], sent[w]>> ELSE <<>>]>>

SecondHandling(w) == SocketClosed(w) /\ ws[w].handled

\* C35: handling the disconnect of a socket twice leaves the session objects
\* and the store as one handling left them: the second handling removes no
\* socket, no participant entry and no presence key.
C35_SecondHandlingNoOp ==
    [][\A w \in Sockets : SecondHandling(w) => UNCHANGED <<sess, storeVars>>]_vars

\* ---- C36 -------------------------------------------------------------------
\* C36: once shutdown has completed, the registry is empty and stays empty
\* and every socket that was attached is closed or closing: no grace timer
\* and no accept that was in flight leaves a session behind.
C36_ShutdownLeavesNothing ==
    stopped = "done"
    => /\ \A sid \in SessionIds : sessions[sid] = NoObj
       /\ \A w \in Sockets : ws[w].handlers => ws[w].state # "open"

====
